---- MODULE Spec2Model ----
(***************************************************************************)
(* A model of the webRag repository:                                       *)
(*   - DynamicNavigation/main.py: the file-backed Cache and the            *)
(*     DocumentationHelper.scrape_documentation path that uses it;         *)
(*   - CDP_chatbot_MannurbhavAraya/app.py: CDPChatbot.search_docs,         *)
(*     compare_platforms and generate_response;                            *)
(*   - CDP_chatbot_MannurbhavAraya/cdp_docs_scraper.py: the batch crawl    *)
(*     of CDPDocScraper._scrape_platform.                                  *)
(* Strings are sequences of one-character strings, so that concatenation,  *)
(* lower-casing, joining and the substring test are computed.              *)
(***************************************************************************)
EXTENDS Integers, Sequences, FiniteSets, TLC

VARIABLES
    \* ---- Cache / DocumentationHelper (main.py)
    expiry,     \* Cache.expiry_delta, in clock units
    now,        \* the wall clock read by datetime.now()
    cache,      \* cache[i]: the in-memory dict self.cache of Cache instance i
    store,      \* content of the cache file: the dict last pickled into it
    lastSet,    \* history: per key, the entry of the most recent set on it
    lastOp,     \* the call that returned last, with the state it started from
    \* ---- two concurrent writers of the cache file
    shared,     \* TRUE: two threads on one Cache; FALSE: two Cache instances
    wpc,        \* wpc[w]: position of writer w inside Cache.set
    wkey,       \* wkey[w], wval[w]: the arguments of writer w's set call
    wval,
    wbuf,       \* wbuf[w]: the bytes pickle.dump serialized for writer w
    \* ---- CDPChatbot (app.py)
    docs_data,  \* CDPChatbot.docs_data, the corpus the index was built on
    lastChat,   \* the chatbot call that returned last, and what it returned
    \* ---- CDPDocScraper._scrape_platform (cdp_docs_scraper.py)
    visited,    \* the set visited
    docs,       \* the list docs, as the number of documents appended per url
    urls_to_process, \* the frontier; list(set(...)) has no defined order
    fut,        \* the futures of the batch: fut[url] is process_page(url)
    mpc,        \* position of the main thread in the batch loop
    saved,      \* the <platform>_docs.json file
    failed,     \* history: the urls whose page failed
    fetches,    \* history: session.get calls per url
    discovered, \* history: the urls placed in a frontier so far
    submitted,  \* history: the urls handed to process_page so far
    visited_before \* history: visited when the last batch was submitted

cacheVars == <<expiry, now, cache, store, lastSet, lastOp>>
writerVars == <<shared, wpc, wkey, wval, wbuf>>
chatVars == <<docs_data, lastChat>>
crawlVars == <<visited, docs, urls_to_process, fut, mpc, saved, failed, fetches,
               discovered, submitted, visited_before>>
vars == <<cacheVars, writerVars, chatVars, crawlVars>>

----------------------------------------------------------------------------
(* Bounds of the model *)
MaxTime == 2
MaxExpiry == 2

----------------------------------------------------------------------------
(* Strings, dicts and Optional values *)

\* Optional[...]: None, or a value
NoneVal == [none |-> TRUE, val |-> <<>>]
Some(v) == [none |-> FALSE, val |-> v]

\* Python truthiness of an Optional list/str: None and the empty sequence are falsy
Truthy(o) == ~o.none /\ Len(o.val) > 0

\* d[k] = e on a dict
DictSet(d, k, e) == [x \in (DOMAIN d) \cup {k} |-> IF x = k THEN e ELSE d[x]]
\* del d[k]
DictDel(d, k) == [x \in (DOMAIN d) \ {k} |-> d[x]]
EmptyDict == [x \in {} |-> 0]

\* The cache file: a pickled dict, or bytes pickle.load cannot read
FileOf(d) == [valid |-> TRUE, dict |-> d]
Unreadable == [valid |-> FALSE, dict |-> EmptyDict]

Min(a, b) == IF a < b THEN a ELSE b
Max(a, b) == IF a > b THEN a ELSE b

----------------------------------------------------------------------------
(* main.py: DocumentationHelper.scrape_documentation, the pure parts *)

\* The (url, search_term) pairs the helper is called with. Two of them share
\* one cache key: "a" + "_" + "b_c" = "a_b" + "_" + "c".
UrlA == <<"a">>
UrlAB == <<"a", "_", "b">>
TermC == <<"c">>
TermBC == <<"b", "_", "c">>
Queries == {<<UrlA, TermBC>>, <<UrlAB, TermC>>, <<UrlA, TermC>>}

\* cache_key = f"{url}_{search_term}"
CacheKey(url, term) == url \o <<"_">> \o term
Keys == {CacheKey(q[1], q[2]) : q \in Queries}

\* A fetched page, as the list of its sections that match the search terms, in
\* document order: <<section, score>>.
Pages == { <<>>,
           << <<1, 1>>, <<2, 2>>, <<3, 1>>, <<4, 2>> >> }

\* relevant_sections.sort(key=score, reverse=True): stable, descending
InsertDesc(t, x) ==
    LET p == Cardinality({i \in 1..Len(t) : t[i][2] >= x[2]})
    IN  SubSeq(t, 1, p) \o <<x>> \o SubSeq(t, p + 1, Len(t))
RECURSIVE SortByScore(_)
SortByScore(s) ==
    IF s = <<>> THEN <<>>
    ELSE InsertDesc(SortByScore(SubSeq(s, 1, Len(s) - 1)), s[Len(s)])

\* relevant_sections[:3]
TopSections == 3
Take(s, n) == SubSeq(s, 1, Min(n, Len(s)))
ScrapeResult(page) == Take(SortByScore(page), TopSections)

\* The values the cache holds: scrape results
Results == {ScrapeResult(p) : p \in Pages}

----------------------------------------------------------------------------
(* main.py: class Cache *)

Entry(content, timestamp) == [content |-> content, timestamp |-> timestamp]

\* Cache._load_cache: the pickled dict, or {} when the file cannot be read
LoadCache(file) == IF file.valid THEN file.dict ELSE EmptyDict

\* Cache.get with the expiry test inverted (the expired entry is the one served)
CacheGetInverted(d, k, t, exp) ==
    IF k \in DOMAIN d
    THEN IF ~(t - d[k].timestamp < exp)
         THEN [ret |-> Some(d[k].content), dict |-> d, saved |-> FALSE]
         ELSE [ret |-> NoneVal, dict |-> DictDel(d, k), saved |-> TRUE]
    ELSE [ret |-> NoneVal, dict |-> d, saved |-> FALSE]

\* Cache.get without the expiry test
CacheGetNoExpiry(d, k, t, exp) ==
    IF k \in DOMAIN d
    THEN [ret |-> Some(d[k].content), dict |-> d, saved |-> FALSE]
    ELSE [ret |-> NoneVal, dict |-> d, saved |-> FALSE]

\* Cache.get that removes the expired entry and does not call _save_cache
CacheGetNoSave(d, k, t, exp) ==
    IF k \in DOMAIN d
    THEN IF t - d[k].timestamp < exp
         THEN [ret |-> Some(d[k].content), dict |-> d, saved |-> FALSE]
         ELSE [ret |-> NoneVal, dict |-> DictDel(d, k), saved |-> FALSE]
    ELSE [ret |-> NoneVal, dict |-> d, saved |-> FALSE]

\* Cache.get on the dict d at time t: the value returned, the dict afterwards
\* and whether _save_cache was called
CacheGet(d, k, t, exp) ==
    IF k \in DOMAIN d
    THEN IF t - d[k].timestamp < exp
         THEN [ret |-> Some(d[k].content), dict |-> d, saved |-> FALSE]
         ELSE [ret |-> NoneVal, dict |-> DictDel(d, k), saved |-> TRUE]
    ELSE [ret |-> NoneVal, dict |-> d, saved |-> FALSE]

\* Cache.set, line 42: self.cache[key] = (content, datetime.now())
CacheSetItem(d, k, v, t) == DictSet(d, k, Entry(v, t))

\* Cache._save_cache: the file holds the pickled self.cache
SaveCache(d) == FileOf(d)

\* History of the sets: the entry written and the scrape_documentation call
\* (url, search_term) that wrote it, <<>> when Cache.set was called directly or
\* the entry was loaded from the file
Written(content, timestamp, q) ==
    [content |-> content, timestamp |-> timestamp, by |-> q]
\* the most recent set on k before a call, if any
PriorSet(sets, k) ==
    IF k \in DOMAIN sets THEN [has |-> TRUE, set |-> sets[k]]
    ELSE [has |-> FALSE, set |-> Written(<<>>, 0, <<>>)]

\* The last call, and the state it started from
Op(name, q, k, v, r, f, d, file, t) ==
    [op |-> name, query |-> q, key |-> k, val |-> v, ret |-> r, fetched |-> f,
     pre |-> d, preStore |-> file, prior |-> PriorSet(lastSet, k), at |-> t]
NoOp == [op |-> "none", query |-> <<>>, key |-> <<>>, val |-> <<>>,
         ret |-> NoneVal, fetched |-> FALSE, pre |-> EmptyDict,
         preStore |-> Unreadable, prior |-> PriorSet(EmptyDict, <<>>), at |-> 0]

\* A dict a previous process can have left in the file at time 0
StoredDicts ==
    UNION { [ks -> {Entry(r, 0) : r \in Results}] : ks \in SUBSET Keys }

InitCache ==
    /\ expiry \in 1..MaxExpiry
    /\ now = 0
    /\ store \in {FileOf(d) : d \in StoredDicts} \cup {Unreadable}
    /\ cache = [i \in {1} |-> LoadCache(store)]
    /\ lastSet = [k \in DOMAIN LoadCache(store) |->
                     Written(LoadCache(store)[k].content, 0, <<>>)]
    /\ lastOp = NoOp

\* key, content: one call of Cache.set on instance 1
Set(k, v) ==
    LET d == CacheSetItem(cache[1], k, v, now) IN
    /\ cache' = [cache EXCEPT ![1] = d]
    /\ store' = SaveCache(d)
    /\ lastSet' = DictSet(lastSet, k, Written(v, now, <<>>))
    /\ lastOp' = Op("set", <<>>, k, v, NoneVal, FALSE, cache[1], store, now)
    /\ UNCHANGED <<expiry, now>>

\* one call of Cache.get on instance 1
Get(k) ==
    LET g == CacheGet(cache[1], k, now, expiry) IN
    /\ cache' = [cache EXCEPT ![1] = g.dict]
    /\ store' = IF g.saved THEN SaveCache(g.dict) ELSE store
    /\ lastOp' = Op("get", <<>>, k, <<>>, g.ret, FALSE, cache[1], store, now)
    /\ UNCHANGED <<expiry, now, lastSet>>

\* What the network gives one call: an error (session.get or raise_for_status
\* raises) or a page
FetchError == [ok |-> FALSE, page |-> <<>>]
Fetched(p) == [ok |-> TRUE, page |-> p]
Outcomes == {FetchError} \cup {Fetched(p) : p \in Pages}

\* one call of scrape_documentation
Scrape(url, term, outcome) ==
    LET key == CacheKey(url, term)
        g == CacheGet(cache[1], key, now, expiry)
        afterGet == IF g.saved THEN SaveCache(g.dict) ELSE store
    IN
    IF Truthy(g.ret)
    THEN \* if cached_content: return cached_content
         /\ cache' = [cache EXCEPT ![1] = g.dict]
         /\ store' = afterGet
         /\ lastOp' = Op("scrape", <<url, term>>, key, <<>>, Some(g.ret.val), FALSE,
                         cache[1], store, now)
         /\ UNCHANGED <<expiry, now, lastSet>>
    ELSE IF ~outcome.ok
    THEN \* except Exception: return []
         /\ cache' = [cache EXCEPT ![1] = g.dict]
         /\ store' = afterGet
         /\ lastOp' = Op("scrape", <<url, term>>, key, <<>>, Some(<<>>), TRUE,
                         cache[1], store, now)
         /\ UNCHANGED <<expiry, now, lastSet>>
    ELSE LET r == ScrapeResult(outcome.page)
             d == CacheSetItem(g.dict, key, r, now) IN
         /\ cache' = [cache EXCEPT ![1] = d]
         /\ store' = SaveCache(d)
         /\ lastSet' = DictSet(lastSet, key, Written(r, now, <<url, term>>))
         /\ lastOp' = Op("scrape", <<url, term>>, key, r, Some(r), TRUE, cache[1], store, now)
         /\ UNCHANGED <<expiry, now>>

\* time passes between calls
Tick ==
    /\ now < MaxTime
    /\ now' = now + 1
    /\ UNCHANGED <<expiry, cache, store, lastSet, lastOp>>

IdleWriters ==
    /\ shared = TRUE
    /\ wpc = <<>>
    /\ wkey = <<>>
    /\ wval = <<>>
    /\ wbuf = <<>>

IdleChat ==
    /\ docs_data = <<>>
    /\ lastChat = <<>>

IdleCrawl ==
    /\ visited = {}
    /\ docs = <<>>
    /\ urls_to_process = {}
    /\ fut = <<>>
    /\ mpc = "idle"
    /\ saved = <<>>
    /\ failed = {}
    /\ fetches = <<>>
    /\ discovered = {}
    /\ submitted = {}
    /\ visited_before = {}

Init == InitCache /\ IdleWriters /\ IdleChat /\ IdleCrawl

Next ==
    \/ \E k \in Keys, v \in Results : Set(k, v) /\ UNCHANGED <<writerVars, chatVars, crawlVars>>
    \/ \E k \in Keys : Get(k) /\ UNCHANGED <<writerVars, chatVars, crawlVars>>
    \/ \E q \in Queries, o \in Outcomes :
          Scrape(q[1], q[2], o) /\ UNCHANGED <<writerVars, chatVars, crawlVars>>
    \/ Tick /\ UNCHANGED <<writerVars, chatVars, crawlVars>>

Spec == Init /\ [][Next]_vars

----------------------------------------------------------------------------
(* Claims on the Cache and on scrape_documentation, under Spec *)

\* The last call was get(k) and found an entry of k that was not live
GetFoundExpired ==
    /\ lastOp.op = "get"
    /\ lastOp.key \in DOMAIN lastOp.pre
    /\ ~(lastOp.at - lastOp.pre[lastOp.key].timestamp < expiry)

\* C1: a get(k) made while less than the expiry has elapsed since the most
\* recent set on k returns exactly the value of that set, whatever calls came
\* before.
C1_RoundTrip ==
    (/\ lastOp.op = "get"
     /\ lastOp.key \in DOMAIN lastSet
     /\ lastOp.at - lastSet[lastOp.key].timestamp < expiry)
    => lastOp.ret = Some(lastSet[lastOp.key].content)

\* C1's case: a set in this run, time passes without reaching the expiry, and
\* the get returns the non-empty value set
C1_Witness ==
    /\ lastOp.op = "get"
    /\ lastOp.key \in DOMAIN lastSet
    /\ lastSet[lastOp.key].timestamp > 0
    /\ lastOp.at > lastSet[lastOp.key].timestamp
    /\ lastOp.at - lastSet[lastOp.key].timestamp < expiry
    /\ lastOp.ret = Some(lastSet[lastOp.key].content)
    /\ lastOp.ret.val # <<>>

\* C2: a get(k) that finds the entry of k outside the expiry window returns
\* None and leaves k in neither the in-memory dict nor the file, the entries of
\* the other keys being as before; and every get(k) made once the expiry has
\* elapsed since the most recent set on k returns None.
C2_Expiry ==
    /\ GetFoundExpired =>
          /\ lastOp.ret = NoneVal
          /\ lastOp.key \notin DOMAIN cache[1]
          /\ store.valid
          /\ lastOp.key \notin DOMAIN store.dict
          /\ cache[1] = DictDel(lastOp.pre, lastOp.key)
          /\ store.dict = DictDel(LoadCache(lastOp.preStore), lastOp.key)
    /\ (/\ lastOp.op = "get"
        /\ lastOp.key \in DOMAIN lastSet
        /\ ~(lastOp.at - lastSet[lastOp.key].timestamp < expiry))
       => lastOp.ret = NoneVal

\* C2's case: an entry set in this run expired and was purged by the get while
\* another key was held
C2_Witness ==
    /\ GetFoundExpired
    /\ lastOp.pre[lastOp.key].timestamp > 0
    /\ Cardinality(DOMAIN lastOp.pre) = 2
    /\ Cardinality(DOMAIN cache[1]) = 1

\* C3: after a set, and after a get that removed an expired entry, the file
\* holds exactly the in-memory dict; a get that hits a live entry or misses
\* changes neither.
C3_WriteThrough ==
    /\ (lastOp.op = "set" \/ GetFoundExpired) => store = FileOf(cache[1])
    /\ (lastOp.op = "get" /\ ~GetFoundExpired) =>
          (cache[1] = lastOp.pre /\ store = lastOp.preStore)

\* C3's case: a get purged an expired entry and the file holds what is left
C3_Witness ==
    /\ GetFoundExpired
    /\ cache[1] # EmptyDict
    /\ store = FileOf(cache[1])

\* C9: once scrape_documentation(url, search_term) fetched successfully and
\* returned R, a later call with the same arguments before the entry expires
\* returns R and does not fetch.
C9_ShortCircuit ==
    (/\ lastOp.op = "scrape"
     /\ lastOp.prior.has
     /\ lastOp.prior.set.by = lastOp.query
     /\ lastOp.at - lastOp.prior.set.timestamp < expiry)
    => (~lastOp.fetched /\ lastOp.ret = Some(lastOp.prior.set.content))

----------------------------------------------------------------------------
(* main.py: two concurrent callers of Cache.set on one cache file. The code  *)
(* takes no lock, so the statements of set and _save_cache interleave.       *)

Writers == {1, 2}

\* The Cache instance writer w calls: the one shared instance, or its own
Inst(w) == IF shared THEN 1 ELSE w

InitWriters ==
    /\ expiry = 1
    /\ now = 0
    /\ store \in {FileOf(d) : d \in StoredDicts} \cup {Unreadable}
    /\ shared \in BOOLEAN
    /\ cache = [i \in (IF shared THEN {1} ELSE Writers) |-> LoadCache(store)]
    /\ lastSet = EmptyDict
    /\ lastOp = NoOp
    /\ wpc = [w \in Writers |-> "idle"]
    /\ wkey = [w \in Writers |-> <<>>]
    /\ wval = [w \in Writers |-> <<>>]
    /\ wbuf = [w \in Writers |-> EmptyDict]
    /\ IdleChat
    /\ IdleCrawl

\* set, line 42: self.cache[key] = (content, datetime.now())
WSetItem(w, k, v) ==
    /\ wpc[w] = "idle"
    /\ cache' = [cache EXCEPT ![Inst(w)] = CacheSetItem(@, k, v, now)]
    /\ wkey' = [wkey EXCEPT ![w] = k]
    /\ wval' = [wval EXCEPT ![w] = v]
    /\ wpc' = [wpc EXCEPT ![w] = "open"]
    /\ UNCHANGED <<expiry, now, store, lastSet, lastOp, shared, wbuf, chatVars, crawlVars>>

\* _save_cache, line 28: open(self.cache_file, 'wb') truncates the file
WOpen(w) ==
    /\ wpc[w] = "open"
    /\ store' = Unreadable
    /\ wpc' = [wpc EXCEPT ![w] = "dump"]
    /\ UNCHANGED <<expiry, now, cache, lastSet, lastOp, shared, wkey, wval, wbuf, chatVars, crawlVars>>

\* _save_cache, line 29: pickle.dump serializes self.cache as it is now
WDump(w) ==
    /\ wpc[w] = "dump"
    /\ wbuf' = [wbuf EXCEPT ![w] = cache[Inst(w)]]
    /\ wpc' = [wpc EXCEPT ![w] = "write"]
    /\ UNCHANGED <<expiry, now, cache, store, lastSet, lastOp, shared, wkey, wval, chatVars, crawlVars>>

\* _save_cache, leaving the with block: the serialized bytes are written from
\* offset 0 and the file is closed; pickle.load reads the pickle at offset 0
WWrite(w) ==
    /\ wpc[w] = "write"
    /\ store' = SaveCache(wbuf[w])
    /\ wpc' = [wpc EXCEPT ![w] = "done"]
    /\ UNCHANGED <<expiry, now, cache, lastSet, lastOp, shared, wkey, wval, wbuf, chatVars, crawlVars>>

NextWriters ==
    \/ \E w \in Writers, k \in Keys, v \in Results : WSetItem(w, k, v)
    \/ \E w \in Writers : WOpen(w)
    \/ \E w \in Writers : WDump(w)
    \/ \E w \in Writers : WWrite(w)

SpecWriters == InitWriters /\ [][NextWriters]_vars

\* C4: once the set calls of two writers on distinct keys have both returned,
\* the file holds both keys with the values written.
C4_NoLostUpdate ==
    (/\ \A w \in Writers : wpc[w] = "done"
     /\ wkey[1] # wkey[2])
    => /\ store.valid
       /\ \A w \in Writers :
             /\ wkey[w] \in DOMAIN store.dict
             /\ store.dict[wkey[w]].content = wval[w]

----------------------------------------------------------------------------
(* app.py: class CDPChatbot *)

MaxDocs == 3
MaxSim == 1

\* str.lower() on the characters the model uses
LowerChar(c) ==
    CASE c = "W" -> "w"
      [] c = "H" -> "h"
      [] c = "Q" -> "q"
      [] OTHER -> c
Lower(s) == [i \in 1..Len(s) |-> LowerChar(s[i])]

\* a in b, on strings
IsSubstr(a, b) ==
    \E i \in 0..(Len(b) - Len(a)) : SubSeq(b, i + 1, i + Len(a)) = a

\* ' '.join(words)
RECURSIVE Join(_)
Join(words) ==
    IF words = <<>> THEN <<>>
    ELSE IF Len(words) = 1 THEN words[1]
    ELSE words[1] \o <<" ">> \o Join(Tail(words))

Doc(u, t, p, c, kw, ty, st) ==
    [url |-> u, title |-> t, platform |-> p, content |-> c, keywords |-> kw,
     type |-> ty, howto_steps |-> st]

\* The documents a corpus is made of
DocPool ==
    { Doc("u1", <<"z">>, "segment", <<"a", " ", "W", "h">>, <<>>,
          "how-to", <<"s1", "s2", "s3", "s4">>),
      Doc("u2", <<"q">>, "mparticle", <<"x">>, << <<"d">>, <<"a">> >>,
          "general", <<>>),
      Doc("u3", <<"y">>, "segment", <<"x">>, << <<"w", "h">> >>,
          "how-to", <<>>) }

\* The feature strings compare_platforms is called with
Features ==
    { <<"w", "h">>, <<"W", "H">>, <<"d", " ", "a">>, <<"Q">>, <<"h", "x">>, <<>> }

\* load_all_docs and process_documents: TfidfVectorizer.fit_transform raises on
\* an empty corpus, so a constructed chatbot holds at least one document
Corpora == UNION { [1..n -> DocPool] : n \in 1..MaxDocs }

\* cosine_similarity(query_vector, doc_vectors)[0] is library code: one value
\* in [0, 1] per document, here in units of 1/MaxSim
Similarities(n) == [1..n -> 0..MaxSim]

\* np.argsort(similarities): the indices in ascending order of similarity. The
\* default kind is not a stable sort, so the order among equal values is any.
ArgSorts(sims) ==
    { p \in [1..Len(sims) -> 1..Len(sims)] :
        /\ \A i, j \in 1..Len(sims) : i # j => p[i] # p[j]
        /\ \A i \in 1..(Len(sims) - 1) : sims[p[i]] <= sims[p[i + 1]] }

\* a[start:] with Python's rule for a negative start
SliceFrom(a, start) ==
    LET n == Len(a)
        s == IF start < 0 THEN Max(n + start, 0) ELSE Min(start, n)
    IN  SubSeq(a, s + 1, n)

\* a[::-1]
Reverse(a) == [i \in 1..Len(a) |-> a[Len(a) + 1 - i]]

\* search_docs, lines 56-64, given the argsort order
TopIndices(order, top_k) == Reverse(SliceFrom(order, 0 - top_k))
SearchResult(sims, order, top_k) ==
    LET top == TopIndices(order, top_k)
    IN  [i \in 1..Len(top) |-> [doc |-> top[i], similarity |-> sims[top[i]]]]

DefaultTopK == 3

\* line 83 with the title searched as well, as process_documents indexes it
MatchesWithTitle(doc, feature) ==
    \/ IsSubstr(Lower(feature), Lower(doc.title))
    \/ IsSubstr(Lower(feature), Lower(doc.content))
    \/ IsSubstr(Lower(feature), Lower(Join(doc.keywords)))

\* compare_platforms, line 83: the test that selects a document
Matches(doc, feature) ==
    \/ IsSubstr(Lower(feature), Lower(doc.content))
    \/ IsSubstr(Lower(feature), Lower(Join(doc.keywords)))

\* feature_docs: the platforms in the order of their first selected document,
\* and the selected documents of a platform in corpus order
RECURSIVE PlatformOrder(_, _)
PlatformOrder(corpus, feature) ==
    IF corpus = <<>> THEN <<>>
    ELSE LET before == PlatformOrder(SubSeq(corpus, 1, Len(corpus) - 1), feature)
             d == corpus[Len(corpus)]
         IN  IF Matches(d, feature)
                  /\ \A i \in 1..Len(before) : before[i] # d.platform
             THEN Append(before, d.platform)
             ELSE before
FeatureDocs(corpus, feature, platform) ==
    SelectSeq(corpus, LAMBDA d : Matches(d, feature) /\ d.platform = platform)

ShownDocs == 2
ShownSteps == 3

\* lines 93-98: what is written for one document
DocLines(doc) ==
    [title |-> doc.title,
     steps |-> IF doc.type = "how-to" /\ doc.howto_steps # <<>>
               THEN Take(doc.howto_steps, ShownSteps) ELSE <<>>]

NotFoundMessage == "I couldn't find enough information to compare this feature across platforms."
NothingFoundMessage == "I'm sorry, I couldn't find any relevant information for your question."

Message(text) == [kind |-> "message", text |-> text, body |-> <<>>]

\* compare_platforms(feature)
ComparePlatformsResult(corpus, feature) ==
    LET platforms == PlatformOrder(corpus, feature) IN
    IF platforms = <<>> THEN Message(NotFoundMessage)
    ELSE [kind |-> "comparison", text |-> "",
          body |-> [i \in 1..Len(platforms) |->
                     LET ds == Take(FeatureDocs(corpus, feature, platforms[i]),
                                    ShownDocs)
                     IN  [platform |-> platforms[i],
                          docs |-> [j \in 1..Len(ds) |-> DocLines(ds[j])]]]]

\* generate_response, lines 119-147, on the result of search_docs
LookupResponse(corpus, relevant_docs) ==
    IF relevant_docs = <<>> THEN Message(NothingFoundMessage)
    ELSE LET top_doc == corpus[relevant_docs[1].doc] IN
         IF top_doc.type = "how-to"
         THEN [kind |-> "how-to", text |-> top_doc.url,
               body |-> IF top_doc.howto_steps # <<>> THEN top_doc.howto_steps
                        ELSE <<"extract_steps(content)">>]
         ELSE [kind |-> "content", text |-> top_doc.url, body |-> top_doc.content]

Call(name, cmp, f, sims, k, corpus, r) ==
    [op |-> name, comparison |-> cmp, feature |-> f, similarities |-> sims,
     top_k |-> k, pre |-> corpus, ret |-> r]

InitChat ==
    /\ docs_data \in Corpora
    /\ lastChat = Call("none", FALSE, <<>>, <<>>, 0, <<>>, <<>>)

\* a constructed chatbot that has not been called yet; no call changes the
\* chatbot, so one call per run reaches every result
Ready == lastChat.op = "none"

\* search_docs(query, top_k); sims are the similarities of the query
SearchDocs(sims, order, top_k) ==
    /\ Ready
    /\ lastChat' = Call("search_docs", FALSE, <<>>, sims, top_k, docs_data,
                        SearchResult(sims, order, top_k))
    /\ UNCHANGED docs_data

\* compare_platforms(feature)
ComparePlatforms(feature) ==
    /\ Ready
    /\ lastChat' = Call("compare_platforms", TRUE, feature, <<>>, 0, docs_data,
                        ComparePlatformsResult(docs_data, feature))
    /\ UNCHANGED docs_data

\* generate_response(query): is_comparison and the feature are what the
\* regular expressions of lines 105-116 find in the query
GenerateResponse(is_comparison, feature, sims, order) ==
    /\ Ready
    /\ lastChat' =
         IF is_comparison
         THEN Call("generate_response", TRUE, feature, <<>>, DefaultTopK,
                   docs_data, ComparePlatformsResult(docs_data, feature))
         ELSE Call("generate_response", FALSE, <<>>, sims, DefaultTopK, docs_data,
                   LookupResponse(docs_data,
                                  SearchResult(sims, order, DefaultTopK)))
    /\ UNCHANGED docs_data

IdleCache ==
    /\ expiry = 1
    /\ now = 0
    /\ cache = <<>>
    /\ store = Unreadable
    /\ lastSet = EmptyDict
    /\ lastOp = NoOp

InitChatbot == InitChat /\ IdleCache /\ IdleWriters /\ IdleCrawl

NextChat ==
    \/ /\ Ready
       /\ \E sims \in Similarities(Len(docs_data)) :
            \E order \in ArgSorts(sims), k \in 0..(MaxDocs + 1) :
               SearchDocs(sims, order, k)
       /\ UNCHANGED <<cacheVars, writerVars, crawlVars>>
    \/ /\ Ready
       /\ \E f \in Features : ComparePlatforms(f)
       /\ UNCHANGED <<cacheVars, writerVars, crawlVars>>
    \/ /\ Ready
       /\ \E f \in Features : GenerateResponse(TRUE, f, <<>>, <<>>)
       /\ UNCHANGED <<cacheVars, writerVars, crawlVars>>
    \/ /\ Ready
       /\ \E sims \in Similarities(Len(docs_data)) :
            \E order \in ArgSorts(sims) :
               GenerateResponse(FALSE, <<>>, sims, order)
       /\ UNCHANGED <<cacheVars, writerVars, crawlVars>>

SpecChat == InitChatbot /\ [][NextChat]_vars

----------------------------------------------------------------------------
(* Claims on the chatbot, under SpecChat *)

Searched == lastChat.op = "search_docs"

\* C5: search_docs(Q, k) returns at most k results, k = 0 and k above the
\* number of documents included, with similarities in non-increasing order.
C5_AtMostKSorted ==
    Searched =>
       /\ Len(lastChat.ret) <= lastChat.top_k
       /\ \A i \in 1..(Len(lastChat.ret) - 1) :
             lastChat.ret[i].similarity >= lastChat.ret[i + 1].similarity

\* C6: of two documents with equal similarity the one earlier in docs_data is
\* ranked first, and of a tie across the top-k cutoff the earlier ones are kept.
C6_TiesByDocOrder ==
    Searched =>
       /\ \A i, j \in 1..Len(lastChat.ret) :
             (i < j /\ lastChat.ret[i].similarity = lastChat.ret[j].similarity)
             => lastChat.ret[i].doc < lastChat.ret[j].doc
       /\ \A i \in 1..Len(lastChat.ret), d \in 1..Len(lastChat.pre) :
             (/\ \A j \in 1..Len(lastChat.ret) : lastChat.ret[j].doc # d
              /\ lastChat.similarities[d] = lastChat.ret[i].similarity)
             => lastChat.ret[i].doc < d

\* C7: a lookup query to which every document has similarity 0 is answered by
\* the "nothing found" message.
C7_NothingFound ==
    (/\ lastChat.op = "generate_response"
     /\ ~lastChat.comparison
     /\ \A d \in 1..Len(lastChat.similarities) : lastChat.similarities[d] = 0)
    => lastChat.ret = Message(NothingFoundMessage)

\* f occurs in text, case-insensitively, as a substring
Occurs(f, text) ==
    \E i \in 0..(Len(text) - Len(f)) :
       \A j \in 1..Len(f) : LowerChar(f[j]) = LowerChar(text[i + j])

----------------------------------------------------------------------------
(* cdp_docs_scraper.py: CDPDocScraper._scrape_platform *)

MaxUrl == 6

\* The urls of the site; base_url is the seed
BaseUrl == 0
Urls == 0..MaxUrl

\* is_valid_url, lines 133-139: the urls the filter rejects
Inadmissible == {MaxUrl}
IsValidUrl(u) == u \notin Inadmissible

\* The anchors under the main content of the page at u, resolved by urljoin:
\* the seed links to every other url, a page to the seed and to the next page
Links(u) ==
    IF u = BaseUrl THEN Urls \ {BaseUrl}
    ELSE {BaseUrl, IF u < MaxUrl THEN u + 1 ELSE 1}

\* max_workers=5 and urls_to_process[:5]
BatchSize == 5

\* What fetching and processing a page can come to:
\*   "ok"          a document is appended and the links are returned
\*   "status"      response.status_code != 200
\*   "exception"   session.get, the parser or create_doc_structure raises
\*   "no_main"     no main, article or div.content element
\*   "link_error"  urljoin raises on an href (line 172), after docs.append
PageKinds == {"ok", "status", "exception", "no_main", "link_error"}
FailureKinds == {"status", "exception", "no_main"}

\* process_page without the except clause of lines 174-176
PageResultUncaught(u, kind) ==
    [doc |-> kind \in {"ok", "link_error"},
     links |-> IF kind = "ok" THEN Links(u) ELSE {},
     raised |-> kind \in {"exception", "link_error"}]

\* process_page, lines 146-176, on an outcome: whether a document is appended,
\* the list returned, and whether an exception leaves process_page
PageResult(u, kind) ==
    [doc |-> kind \in {"ok", "link_error"},
     links |-> IF kind = "ok" THEN Links(u) ELSE {},
     raised |-> FALSE]

\* visited.add(url) that adds nothing
VisitNothing(vis, u) == vis

\* visited.add(base_url) in the place of visited.add(url)
VisitSeed(vis, u) == vis \cup {BaseUrl}

\* line 145: visited.add(url)
Visit(vis, u) == vis \cup {u}

Future(pc, links, raised) == [pc |-> pc, result |-> links, raised |-> raised]

\* urls_to_process[:5] of a list in no defined order
Batches(S) ==
    {B \in SUBSET S : Cardinality(B) = Min(BatchSize, Cardinality(S))}

InitCrawl ==
    /\ visited = {}
    /\ docs = [u \in Urls |-> 0]
    /\ urls_to_process = {BaseUrl}
    /\ fut = <<>>
    /\ mpc = "loop"
    /\ saved = [written |-> FALSE, docs |-> [u \in Urls |-> 0]]
    /\ failed = {}
    /\ fetches = [u \in Urls |-> 0]
    /\ discovered = {BaseUrl}
    /\ submitted = {}
    /\ visited_before = {}

\* lines 183-186: a batch is submitted to the executor
Submit(B) ==
    /\ mpc = "loop"
    /\ urls_to_process # {}
    /\ B \in Batches(urls_to_process)
    /\ fut' = [u \in B |-> Future("start", {}, FALSE)]
    /\ mpc' = "wait"
    /\ submitted' = submitted \cup B
    /\ visited_before' = visited
    /\ UNCHANGED <<visited, docs, urls_to_process, saved, failed, fetches, discovered>>

\* process_page, lines 142-143
WCheck(u) ==
    /\ mpc = "wait"
    /\ u \in DOMAIN fut
    /\ fut[u].pc = "start"
    /\ fut' = [fut EXCEPT ![u] =
                 IF u \in visited \/ ~IsValidUrl(u)
                 THEN Future("done", {}, FALSE)
                 ELSE Future("add", {}, FALSE)]
    /\ UNCHANGED <<visited, docs, urls_to_process, mpc, saved, failed, fetches,
                   discovered, submitted, visited_before>>

\* process_page, line 145
WAdd(u) ==
    /\ mpc = "wait"
    /\ u \in DOMAIN fut
    /\ fut[u].pc = "add"
    /\ visited' = Visit(visited, u)
    /\ fut' = [fut EXCEPT ![u] = Future("fetch", {}, FALSE)]
    /\ UNCHANGED <<docs, urls_to_process, mpc, saved, failed, fetches,
                   discovered, submitted, visited_before>>

\* process_page, lines 146-176
WFetch(u, kind) ==
    LET r == PageResult(u, kind) IN
    /\ mpc = "wait"
    /\ u \in DOMAIN fut
    /\ fut[u].pc = "fetch"
    /\ fetches' = [fetches EXCEPT ![u] = @ + 1]
    /\ docs' = IF r.doc THEN [docs EXCEPT ![u] = @ + 1] ELSE docs
    /\ failed' = IF kind \in FailureKinds THEN failed \cup {u} ELSE failed
    /\ fut' = [fut EXCEPT ![u] = Future("done", r.links, r.raised)]
    /\ UNCHANGED <<visited, urls_to_process, mpc, saved, discovered, submitted, visited_before>>

\* lines 188-194: every future.result() is taken, then the next frontier is
\* list(set(new_urls) - visited); an exception of a future leaves the loop
Collect ==
    /\ mpc = "wait"
    /\ \A u \in DOMAIN fut : fut[u].pc = "done"
    /\ IF \E u \in DOMAIN fut : fut[u].raised
       THEN /\ mpc' = "aborted"
            /\ UNCHANGED <<urls_to_process, discovered>>
       ELSE /\ urls_to_process' = (UNION {fut[u].result : u \in DOMAIN fut}) \ visited
            /\ discovered' = discovered \cup urls_to_process'
            /\ mpc' = "loop"
    /\ UNCHANGED <<visited, docs, fut, saved, failed, fetches, submitted, visited_before>>

\* lines 196-202: the loop is left on an empty frontier and docs is written
Save ==
    /\ mpc = "loop"
    /\ urls_to_process = {}
    /\ saved' = [written |-> TRUE, docs |-> docs]
    /\ mpc' = "done"
    /\ UNCHANGED <<visited, docs, urls_to_process, fut, failed, fetches,
                   discovered, submitted, visited_before>>

InitScraper == InitCrawl /\ IdleCache /\ IdleWriters /\ IdleChat

NextCrawl ==
    \/ \E B \in SUBSET Urls : Submit(B) /\ UNCHANGED <<cacheVars, writerVars, chatVars>>
    \/ \E u \in Urls : WCheck(u) /\ UNCHANGED <<cacheVars, writerVars, chatVars>>
    \/ \E u \in Urls : WAdd(u) /\ UNCHANGED <<cacheVars, writerVars, chatVars>>
    \/ \E u \in Urls, kind \in PageKinds :
          WFetch(u, kind) /\ UNCHANGED <<cacheVars, writerVars, chatVars>>
    \/ Collect /\ UNCHANGED <<cacheVars, writerVars, chatVars>>
    \/ Save /\ UNCHANGED <<cacheVars, writerVars, chatVars>>

SpecCrawl == InitScraper /\ [][NextCrawl]_vars

\* The crawl when every fetch returns and the threads are scheduled: a step of
\* the main thread or of a worker that can be taken is eventually taken
SpecCrawlFair == InitScraper /\ [][NextCrawl]_vars /\ WF_vars(NextCrawl)

----------------------------------------------------------------------------
(* Claims on the crawl, under SpecCrawl *)

C11_WholeFrontier ==
    mpc = "done" =>
        /\ discovered \subseteq submitted
        /\ \A u \in discovered : IsValidUrl(u) => u \in visited

\* C12: within one crawl run, under every interleaving of the workers of a
\* batch, no url is fetched more than once, the document list (and the file
\* written from it) holds at most one document per url, and the url of every
\* document is in the visited set.
C12_UrlIsKey ==
    \A u \in Urls :
        /\ fetches[u] <= 1
        /\ docs[u] <= 1
        /\ saved.docs[u] <= 1
        /\ docs[u] > 0 => u \in visited

\* C12's case: in a batch after the first, two workers have each appended a
\* document while a third worker of the batch has not yet tested visited
C12_Witness ==
    /\ mpc = "wait"
    /\ visited_before # {}
    /\ \E u, v, w \in DOMAIN fut :
          /\ u # v
          /\ fut[u].pc = "done" /\ docs[u] = 1 /\ fetches[u] = 1
          /\ fut[v].pc = "done" /\ docs[v] = 1 /\ fetches[v] = 1
          /\ fut[w].pc = "start"

\* A batch has been collected and the frontier it left is not empty
BatchLeftFrontier ==
    /\ mpc = "loop"
    /\ DOMAIN fut # {}
    /\ urls_to_process # {}

\* C13: the crawl terminates: when every fetch returns and the workers are
\* scheduled fairly, the batch loop eventually finds the frontier empty and
\* exits; and every batch that left a non-empty frontier has strictly
\* enlarged the visited set.
C13_Terminates ==
    /\ <>(mpc = "done")
    /\ [](BatchLeftFrontier =>
             (visited_before \subseteq visited /\ visited_before # visited))

\* C13's case: the loop has exited after at least three batches, one of them
\* cut from a frontier of more than 5 urls
C13_Witness ==
    /\ mpc = "done"
    /\ urls_to_process = {}
    /\ Cardinality(discovered) > BatchSize + 1
    /\ Cardinality(submitted) > BatchSize + 1

====
